---- MODULE Spec2Model ----
(***************************************************************************)
(* GNU diff, dir.c: reading, sorting and pairing the names of two          *)
(* directories (dir_read, compare_collated, compare_names,                 *)
(* compare_names_for_qsort, diff_dirs, dir_loop, find_dir_file_pathname).  *)
(*                                                                         *)
(* A file name is a non-empty sequence of bytes; the null pointer is the   *)
(* empty sequence.  A directory is a number (its device/inode identity);  *)
(* 0 stands for a side whose desc is NONEXISTENT.  The chain of nested     *)
(* diff_dirs activations is the sequence stack: the comparison of frame k  *)
(* has the comparison of frame k-1 as its parent, and the first frame's    *)
(* parent is noparent.                                                     *)
(***************************************************************************)
EXTENDS Integers, Sequences, FiniteSets, TLC

(* ------------------------------ bounds --------------------------------- *)

\* Largest number of entries in one directory of the pairing family.
MaxNames == 2
\* Number of directories in the file systems of the recursion family.
NDirs == 3
\* Largest number of collation failures (errno set by strcoll) in one run.
MaxFail == 1

(* --------------------------- program constants ------------------------- *)

EXIT_SUCCESS == 0
EXIT_TROUBLE == 2

\* The null pointer where a name is expected.
Null == << >>

\* "A", "a", "Ab", "aB", "ab"
NameA == <<65>>
Namea == <<97>>
NameAb == <<65, 98>>
NameaB == <<97, 66>>
Nameab == <<97, 98>>
Universe == {NameA, Namea, NameAb, NameaB, Nameab}

\* "." and "..", which readdir reports for every directory.
Dot == <<46>>
DotDot == <<46, 46>>

\* The only name that may denote a subdirectory in the modelled file systems.
DirName == NameA

(* ----------------------- libc string comparison ------------------------ *)

Sign(x) == IF x < 0 THEN -1 ELSE IF x > 0 THEN 1 ELSE 0

Min(x, y) == IF x < y THEN x ELSE y

Max(x, y) == IF x < y THEN y ELSE x

\* tolower in the C locale.
ToLower(b) == IF b >= 65 /\ b =< 90 THEN b + 32 ELSE b

Fold(s) == [i \in 1..Len(s) |-> ToLower(s[i])]

\* Index of the first position where s and t differ, or 0 when one is a
\* prefix of the other.
RECURSIVE FirstDiff(_, _, _)
FirstDiff(s, t, i) ==
  IF i > Len(s) \/ i > Len(t) THEN 0
  ELSE IF s[i] # t[i] THEN i
  ELSE FirstDiff(s, t, i + 1)

\* strcmp: byte-wise order of two strings, reduced to its sign.
strcmp(s, t) ==
  LET d == FirstDiff(s, t, 1)
  IN IF d = 0 THEN Sign(Len(s) - Len(t)) ELSE Sign(s[d] - t[d])

\* file_name_cmp is strcmp unless config.h overrides it.
file_name_cmp(name1, name2) == strcmp(name1, name2)

strcasecmp(s, t) == strcmp(Fold(s), Fold(t))

(* ------------------------------- state --------------------------------- *)

VARIABLES
  ents,                     \* file system: directory -> set of entry names
  sub,                      \* file system: directory -> directory that its entry DirName denotes (0: a regular file)
  excluded,                 \* the names matched by the exclusion patterns
  locale,                   \* LC_COLLATE in effect: "C" or "nocase"
  ignore_file_name_case,    \* --ignore-file-name-case
  starting_file,            \* --starting-file, Null when not given
  locale_specific_sorting,  \* static bool locale_specific_sorting
  jmp,                      \* static jmp_buf failed_locale_specific_sorting
  stack,                    \* the active diff_dirs calls, outermost first
  fails,                    \* collation failures so far
  lastcmp,                  \* the latest compare_names call and its result
  found,                    \* the latest find_dir_file_pathname call and its result
  ub                        \* "none", or how the run left defined behaviour

vars == <<ents, sub, excluded, locale, ignore_file_name_case, starting_file,
          locale_specific_sorting, jmp, stack, fails,
          lastcmp, found, ub>>

env == <<ents, sub, excluded, locale, ignore_file_name_case, starting_file>>

Dirs == 1..NDirs

\* The two directories named on the command line.
RootLeft == 1
RootRight == 2

(* --------------------------- Name Comparator --------------------------- *)

\* strcoll under the locale in effect, reduced to its sign.  The "nocase"
\* locale gives equal weights to the two cases of a letter, so strcoll
\* reports 0 for some byte-different strings.
strcoll(name1, name2) ==
  IF locale = "C" THEN strcmp(name1, name2) ELSE strcasecmp(name1, name2)

\* strcasecoll (stricoll or strcasecmp, system.h).
strcasecoll(name1, name2) == strcasecmp(name1, name2)

\* compare_collated when the collation function leaves errno at 0.  The
\* errno branch is the action CollationFailure.
compare_collated(name1, name2) ==
  IF ignore_file_name_case THEN strcasecoll(name1, name2)
  ELSE strcoll(name1, name2)

\* compare_names with the two case-folding branches exchanged.
compare_names_as_claimed(lss, name1, name2) ==
  IF lss
  THEN LET diff == compare_collated(name1, name2)
       IN IF diff # 0 \/ ~ignore_file_name_case THEN diff
          ELSE file_name_cmp(name1, name2)
  ELSE file_name_cmp(name1, name2)

\* compare_names, with the value of locale_specific_sorting at the call.
compare_names(lss, name1, name2) ==
  IF lss
  THEN LET diff == compare_collated(name1, name2)
       IN IF diff # 0 \/ ignore_file_name_case THEN diff
          ELSE file_name_cmp(name1, name2)
  ELSE file_name_cmp(name1, name2)

\* compare_names_for_qsort without the file_name_cmp tie-break.
compare_names_for_qsort_no_tie_break(lss, name1, name2) ==
  IF lss THEN compare_collated(name1, name2) ELSE file_name_cmp(name1, name2)

\* compare_names_for_qsort, with the value of locale_specific_sorting at the call.
compare_names_for_qsort(lss, name1, name2) ==
  IF lss
  THEN LET diff == compare_collated(name1, name2)
       IN IF diff # 0 THEN diff ELSE file_name_cmp(name1, name2)
  ELSE file_name_cmp(name1, name2)

\* Insert name x into the sorted sequence s.
RECURSIVE Insert(_, _, _)
Insert(lss, x, s) ==
  IF s = << >> THEN <<x>>
  ELSE IF compare_names_for_qsort(lss, x, Head(s)) < 0 THEN <<x>> \o s
  ELSE <<Head(s)>> \o Insert(lss, x, Tail(s))

\* qsort that leaves the table as it was read.
qsortUnsorted(lss, s) == s

\* qsort (names, nnames, sizeof *names, compare_names_for_qsort).
RECURSIVE qsort(_, _)
qsort(lss, s) ==
  IF s = << >> THEN << >> ELSE Insert(lss, Head(s), qsort(lss, Tail(s)))

\* The orders in which a set of names can be enumerated or left behind by
\* an interrupted sort.
Perms(S) ==
  {p \in [1..Cardinality(S) -> S] : \A i, j \in 1..Cardinality(S) : i # j => p[i] # p[j]}

Range(s) == {s[i] : i \in 1..Len(s)}

Reverse(s) == [i \in 1..Len(s) |-> s[Len(s) + 1 - i]]

\* The orders of enumeration that the directories are read in: byte order and
\* its reverse, which for up to two names are all the orders there are.
\* The sort makes the order of enumeration invisible to the merge.
Orders(S) ==
  LET a == qsort(FALSE, CHOOSE p \in Perms(S) : TRUE)
  IN {a, Reverse(a)}

(* --------------------------- Directory Reader -------------------------- *)

\* The readdir loop of dir_read without the test against startfile.
ReadLoopNoStart(lss, entries, startfile, startfile_only) ==
  SelectSeq(entries, LAMBDA d_name : d_name \notin {Dot, DotDot} /\ d_name \notin excluded)

\* One pass of the readdir loop of dir_read over the entries still to come:
\* the names that are kept, in enumeration order.
RECURSIVE ReadLoop(_, _, _, _)
ReadLoop(lss, entries, startfile, startfile_only) ==
  IF entries = << >> THEN << >>
  ELSE LET d_name == Head(entries)
           rest == ReadLoop(lss, Tail(entries), startfile, startfile_only)
           cmp == compare_names(lss, d_name, startfile)
       IN IF d_name = Dot \/ d_name = DotDot THEN rest
          ELSE IF startfile # Null /\ (cmp < 0 \/ (startfile_only /\ cmp # 0)) THEN rest
          ELSE IF d_name \in excluded THEN rest
          ELSE <<d_name>> \o rest

\* What readdir yields for directory d when its entries come in order p.
Enumeration(p) == <<Dot, DotDot>> \o p

\* Does dir_read call compare_names at all?
ReadCompares(d, startfile) == startfile # Null /\ ents[d] # {}

(* ----------------------------- Loop Detector --------------------------- *)

\* same_file on two directory identities (SAME_INODE; directories are not
\* special files).
same_file(s, t) == IF s = t THEN 1 ELSE 0

\* dir_loop that looks at the parent only.
dir_loop_parent_only(st, k, i) ==
  k > 1 /\ 0 < same_file(st[k - 1].id[i], st[k].id[i])

\* dir_loop (cmp, i) for the comparison of frame k of stack st.
dir_loop(st, k, i) ==
  \E a \in 1..(k - 1) : 0 < same_file(st[a].id[i], st[k].id[i])

(* ------------------------- diff_dirs activations ----------------------- *)

\* Sides 0 and 1 of the code are the indices 1 and 2 here.
Sides == {1, 2}

Depth == Len(stack)

Top == stack[Depth]

\* *names[i]: the name under the cursor, Null at the terminating marker.
Deref(t, c) == IF c < Len(t) THEN t[c + 1] ELSE Null

NoCmp == [made |-> FALSE, n1 |-> Null, n2 |-> Null, lss |-> FALSE, r |-> 0]

Cmp(lss, name1, name2) ==
  [made |-> TRUE, n1 |-> name1, n2 |-> name2, lss |-> lss,
   r |-> compare_names(lss, name1, name2)]

NoFind == [made |-> FALSE]

\* The activation record of diff_dirs for the comparison of directories
\* l and r (0: that side's desc is NONEXISTENT).
NewFrame(l, r) ==
  [id |-> <<l, r>>,
   desc |-> <<IF l = 0 THEN "NONEXISTENT" ELSE "UNOPENED",
              IF r = 0 THEN "NONEXISTENT" ELSE "UNOPENED">>,
   dirstream |-> <<FALSE, FALSE>>,
   pc |-> "enter",
   names |-> <<<< >>, << >>>>,      \* dirdata[i].names without the final 0
   cur |-> <<0, 0>>,                \* names[i] - dirdata[i].names
   val |-> EXIT_SUCCESS,
   readok |-> <<FALSE, FALSE>>,     \* what dir_read returned for each side
   outcome |-> <<"none", "none">>,  \* how the dir_read of each side ended
   read |-> <<{}, {}>>,             \* the names dir_read returned for each side
   looped |-> FALSE,                \* the call printed "recursive directory loop"
   pairs |-> << >>,                 \* the pairs handed to handle_file so far
   hmax |-> EXIT_SUCCESS,           \* the largest value handle_file returned so far
   diags |-> 0,                     \* collation diagnostics printed by this call
   extentfail |-> FALSE,            \* a collation failure happened during this call
   collafterfail |-> FALSE]         \* this call compared by collation after its failure

\* diff_dirs is called on the two directories of the command line.
DiffDirsTop ==
  /\ ub = "none"
  /\ stack = << >>
  /\ stack' = <<NewFrame(RootLeft, RootRight)>>
  /\ lastcmp' = NoCmp
  /\ found' = NoFind
  /\ UNCHANGED <<env, locale_specific_sorting, jmp, fails, ub>>

\* The recursive-loop exit taken only when dir_loop holds of both sides.
LoopExitBothLoop(st, k) == dir_loop(st, k, 1) /\ dir_loop(st, k, 2)

\* diff_dirs, lines 228-234: the recursive-loop exit.
LoopExit(st, k) ==
  /\ (st[k].desc[1] = "NONEXISTENT" \/ dir_loop(st, k, 1))
  /\ (st[k].desc[2] = "NONEXISTENT" \/ dir_loop(st, k, 2))

DiffDirsEnter ==
  /\ ub = "none"
  /\ stack # << >>
  /\ Top.pc = "enter"
  /\ IF LoopExit(stack, Depth)
     THEN stack' = [stack EXCEPT ![Depth].pc = "done",
                               ![Depth].val = EXIT_TROUBLE,
                               ![Depth].looped = TRUE]
     ELSE stack' = [stack EXCEPT ![Depth].pc = "read"]
  /\ UNCHANGED <<env, locale_specific_sorting, jmp, fails, lastcmp, found, ub>>

\* The ways one dir_read call can end.
ReadOutcomes == {"ok", "openat", "fdopendir", "readdir"}

\* dir->desc when dir_read opens a directory whatever desc says.
DescAfterAlwaysOpen(desc, o) == IF o = "openat" THEN desc ELSE "OPEN"

\* dir->desc after dir_read ended with outcome o.
DescAfter(desc, o) ==
  IF desc = "NONEXISTENT" \/ o = "openat" THEN desc ELSE "OPEN"

\* dir->dirstream after dir_read ended with outcome o.
StreamAfter(desc, stream, o) ==
  IF desc = "NONEXISTENT" \/ o \in {"openat", "fdopendir"} THEN stream ELSE TRUE

\* The return value of dir_read.
ReadOk(desc, o) == desc = "NONEXISTENT" \/ o = "ok"

\* dirdata->names after a successful dir_read of directory d enumerated in order p.
dir_read(lss, desc, p, startfile, startfile_only) ==
  IF desc = "NONEXISTENT" THEN << >>
  ELSE ReadLoop(lss, Enumeration(p), startfile, startfile_only)

\* Directory entries when a looping side is treated as absent.
SideEntsLoopAbsent(f, i) ==
  IF f.desc[i] = "NONEXISTENT" \/ (\E k \in 1..Len(stack) : stack[k] = f /\ dir_loop(stack, k, i))
  THEN {} ELSE ents[f.id[i]]

\* The directory entries of side i of frame f (none for a NONEXISTENT side).
SideEnts(f, i) == IF f.desc[i] = "NONEXISTENT" THEN {} ELSE ents[f.id[i]]

\* The restart cursor diff_dirs passes to dir_read.
StartFor(k) == IF k = 1 THEN starting_file ELSE Null

\* The entries readdir handed to dir_read before the loop ended: all of
\* them when the read succeeds, the first k when readdir fails after k
\* entries, none when the directory could not be opened.
Compared(o, p, k) ==
  IF o = "ok" THEN p ELSE IF o = "readdir" THEN SubSeq(p, 1, k) ELSE << >>

\* The latest compare_names call once dir_read has compared the entries q
\* with startfile (line 117); prev when it made no call.
LastCall(lss, prev, q, startfile) ==
  IF startfile = Null \/ q = << >> THEN prev
  ELSE Cmp(lss, q[Len(q)], startfile)

\* The orders in which readdir may return the entries S to a dir_read that
\* ends with outcome o.  The order leaves a trace only in the table of a
\* successful read and in the comparisons with startfile; a read that
\* failed to open the directory enumerates nothing.
Enumerations(o, S, startfile) ==
  IF o = "ok" \/ (o = "readdir" /\ startfile # Null) THEN Orders(S)
  ELSE {qsort(FALSE, CHOOSE p \in Perms(S) : TRUE)}

\* The numbers of entries of p that readdir may have returned when dir_read
\* ends with outcome o: any number before a readdir failure, which shows
\* only in the comparisons with startfile.
Stops(o, p, startfile) ==
  IF o = "readdir" /\ startfile # Null THEN 0..Len(p) ELSE {Len(p)}

\* diff_dirs, lines 236-247: both directories are read.
DiffDirsRead ==
  /\ ub = "none"
  /\ stack # << >>
  /\ Top.pc = "read"
  /\ \E o1, o2 \in ReadOutcomes :
     \E p1 \in Enumerations(o1, SideEnts(Top, 1), StartFor(Depth)),
        p2 \in Enumerations(o2, SideEnts(Top, 2), StartFor(Depth)) :
     \E k1 \in Stops(o1, p1, StartFor(Depth)), k2 \in Stops(o2, p2, StartFor(Depth)) :
       LET f == Top
           start == StartFor(Depth)
           ok1 == ReadOk(f.desc[1], o1)
           ok2 == ReadOk(f.desc[2], o2)
           t1 == IF ok1 THEN dir_read(locale_specific_sorting, f.desc[1], p1, start, FALSE) ELSE << >>
           t2 == IF ok2 THEN dir_read(locale_specific_sorting, f.desc[2], p2, start, FALSE) ELSE << >>
           good == ok1 /\ ok2
       IN /\ (f.desc[1] = "NONEXISTENT" => o1 = "ok")
          /\ (f.desc[2] = "NONEXISTENT" => o2 = "ok")
          /\ stack' = [stack EXCEPT
               ![Depth].desc = <<DescAfter(f.desc[1], o1), DescAfter(f.desc[2], o2)>>,
               ![Depth].dirstream = <<StreamAfter(f.desc[1], f.dirstream[1], o1),
                                      StreamAfter(f.desc[2], f.dirstream[2], o2)>>,
               ![Depth].readok = <<ok1, ok2>>,
               ![Depth].outcome = <<o1, o2>>,
               ![Depth].read = <<Range(t1), Range(t2)>>,
               ![Depth].names = <<t1, t2>>,
               ![Depth].val = IF good THEN EXIT_SUCCESS ELSE EXIT_TROUBLE,
               ![Depth].pc = IF good THEN "setjmp" ELSE "done"]
          /\ lastcmp' = LastCall(locale_specific_sorting,
                                 LastCall(locale_specific_sorting, lastcmp,
                                          Compared(o1, p1, k1), start),
                                 Compared(o2, p2, k2), start)
  /\ UNCHANGED <<env, locale_specific_sorting, jmp, fails, found, ub>>

\* diff_dirs, lines 252-254: locale_specific_sorting = true and the direct
\* return of setjmp.
DiffDirsSetjmp ==
  /\ ub = "none"
  /\ stack # << >>
  /\ Top.pc = "setjmp"
  /\ locale_specific_sorting' = TRUE
  /\ jmp' = [state |-> "live", depth |-> Depth]
  /\ stack' = [stack EXCEPT ![Depth].pc = "sort"]
  /\ UNCHANGED <<env, fails, lastcmp, found, ub>>

(* --------------------------- collation failure ------------------------ *)

\* What a longjmp through a jmp_buf whose setjmp caller has returned can
\* do: the process is stopped (the jump faults or a checking longjmp
\* aborts), or control continues in the stack frame that no longer exists.
StaleOutcomes == {"longjmp_stopped", "longjmp_wild"}

\* Every activation in st has now seen a collation failure; the innermost
\* one, whose comparison it was, has printed the diagnostic.
Failed(st) ==
  [k \in 1..Len(st) |->
     [st[k] EXCEPT !.extentfail = TRUE,
                   !.diags = IF k = Len(st) THEN @ + 1 ELSE @]]

\* compare_collated, lines 163-168: errno is set, the diagnostic is printed
\* and longjmp (failed_locale_specific_sorting, 1) is taken from the stack
\* st.  A live target is the setjmp of line 253, which returns 1: line 254
\* clears locale_specific_sorting and the sort of line 257 follows.
LongJmp(st) ==
  /\ fails' = fails + 1
  /\ IF jmp.state = "live"
     THEN /\ stack' = [SubSeq(Failed(st), 1, jmp.depth) EXCEPT ![jmp.depth].pc = "sort"]
          /\ locale_specific_sorting' = FALSE
          /\ UNCHANGED ub
     ELSE /\ stack' = Failed(st)
          /\ ub' \in StaleOutcomes
          /\ UNCHANGED locale_specific_sorting
  /\ UNCHANGED jmp

\* The collation function fails while dir_read compares an entry with the
\* restart cursor: in the read of side 1 at the j-th entry of p1, or in
\* the read of side 2 at the j-th entry of p2 after the read of side 1
\* has ended with outcome o1.  The comparisons before the failing one
\* have returned, and the directory being read has been opened.
DiffDirsReadFailure ==
  /\ ub = "none"
  /\ stack # << >>
  /\ Top.pc = "read"
  /\ locale_specific_sorting
  /\ fails < MaxFail
  /\ StartFor(Depth) # Null
  /\ LET f == Top
         start == StartFor(Depth)
         lss == locale_specific_sorting
     IN \/ \E p1 \in Orders(SideEnts(f, 1)), j \in 1..Cardinality(SideEnts(f, 1)) :
             /\ lastcmp' = LastCall(lss, lastcmp, SubSeq(p1, 1, j - 1), start)
             /\ LongJmp([stack EXCEPT
                   ![Depth].desc = <<DescAfter(f.desc[1], "ok"), f.desc[2]>>,
                   ![Depth].dirstream = <<StreamAfter(f.desc[1], f.dirstream[1], "ok"),
                                          f.dirstream[2]>>])
        \/ \E o1 \in ReadOutcomes, p2 \in Orders(SideEnts(f, 2)), j \in 1..Cardinality(SideEnts(f, 2)) :
           \E p1 \in Enumerations(o1, SideEnts(f, 1), start) :
           \E k1 \in Stops(o1, p1, start) :
             LET ok1 == ReadOk(f.desc[1], o1)
                 t1 == IF ok1 THEN dir_read(lss, f.desc[1], p1, start, FALSE) ELSE << >>
             IN /\ (f.desc[1] = "NONEXISTENT" => o1 = "ok")
                /\ lastcmp' = LastCall(lss, LastCall(lss, lastcmp, Compared(o1, p1, k1), start),
                                       SubSeq(p2, 1, j - 1), start)
                /\ LongJmp([stack EXCEPT
                      ![Depth].desc = <<DescAfter(f.desc[1], o1), DescAfter(f.desc[2], "ok")>>,
                      ![Depth].dirstream = <<StreamAfter(f.desc[1], f.dirstream[1], o1),
                                             StreamAfter(f.desc[2], f.dirstream[2], "ok")>>,
                      ![Depth].readok = <<ok1, FALSE>>,
                      ![Depth].outcome = <<o1, "none">>,
                      ![Depth].read = <<Range(t1), {}>>,
                      ![Depth].names = <<t1, << >>>>,
                      ![Depth].val = IF ok1 THEN EXIT_SUCCESS ELSE EXIT_TROUBLE])
  /\ UNCHANGED <<env, found>>

(* ------------------------------- the sort ------------------------------ *)

\* Does the range qsort is given for a side, nnames entries from the
\* cursor, hold at least two entries and reach the terminating 0?  Then
\* the comparison function is called on a null pointer.
SortDerefsNull(t, c) == c > 0 /\ Len(t) >= 2

\* The table of a side after the qsort of line 258.
Sorted(lss, t, c) == IF c = 0 THEN qsort(lss, t) ELSE t

\* Does the qsort of a side call the comparison function?
SortCompares(t) == Len(t) >= 2

\* diff_dirs, lines 257-259: both sides are sorted.
DiffDirsSort ==
  /\ ub = "none"
  /\ stack # << >>
  /\ Top.pc = "sort"
  /\ LET f == Top
     IN IF \E i \in Sides : SortDerefsNull(f.names[i], f.cur[i])
        THEN /\ ub' = "null_deref"
             /\ UNCHANGED stack
        ELSE /\ stack' = [stack EXCEPT
                  ![Depth].names = <<Sorted(locale_specific_sorting, f.names[1], f.cur[1]),
                                     Sorted(locale_specific_sorting, f.names[2], f.cur[2])>>,
                  ![Depth].collafterfail =
                      @ \/ (f.diags > 0 /\ locale_specific_sorting
                            /\ \E i \in Sides : SortCompares(f.names[i])),
                  ![Depth].pc = "merge"]
             /\ UNCHANGED ub
  /\ UNCHANGED <<env, locale_specific_sorting, jmp, fails, lastcmp, found>>

\* The collation function fails inside the qsort of side i: the sides
\* before i are sorted, side i is left in some order.
DiffDirsSortFailure ==
  /\ ub = "none"
  /\ stack # << >>
  /\ Top.pc = "sort"
  /\ locale_specific_sorting
  /\ fails < MaxFail
  /\ \A j \in Sides : ~SortDerefsNull(Top.names[j], Top.cur[j])
  /\ \E i \in Sides :
       /\ SortCompares(Top.names[i])
       /\ Top.cur[i] = 0
       /\ \E q \in Orders(Range(Top.names[i])) :
            LET f == Top
                t1 == IF i = 1 THEN q ELSE Sorted(TRUE, f.names[1], f.cur[1])
                t2 == IF i = 2 THEN q ELSE f.names[2]
            IN LongJmp([stack EXCEPT ![Depth].names = <<t1, t2>>])
  /\ UNCHANGED <<env, lastcmp, found>>

(* ------------------------------ the merge ------------------------------ *)

\* diff_dirs, lines 267-268.
NameOrder(lss, n0, n1) ==
  IF n0 = Null THEN 1 ELSE IF n1 = Null THEN -1 ELSE compare_names(lss, n0, n1)

\* Scan that never finds the byte-identical name.
ScanNever(lss, t, q, greater_name) == -1

\* diff_dirs, lines 284-299: the scan of the lesser side from position q;
\* the position of the entry to move to the front, or -1.
RECURSIVE Scan(_, _, _, _)
Scan(lss, t, q, greater_name) ==
  IF Deref(t, q) = Null THEN -1
  ELSE IF compare_names(lss, Deref(t, q), greater_name) # 0 THEN -1
  ELSE LET c == file_name_cmp(Deref(t, q), greater_name)
       IN IF 0 =< c THEN (IF c = 0 THEN q ELSE -1)
          ELSE Scan(lss, t, q + 1, greater_name)

\* Rotate without the memmove of line 293.
RotateNoMove(t, c, q, greater_name) == [t EXCEPT ![c + 1] = greater_name]

\* diff_dirs, lines 293-295: memmove (lesser + 1, lesser, p - lesser) and
\* *lesser = greater_name, for the cursor at c and p at q.
Rotate(t, c, q, greater_name) ==
  [j \in 1..Len(t) |->
     IF j = c + 1 THEN greater_name
     ELSE IF j > c + 1 /\ j =< q + 1 THEN t[j - 1]
     ELSE t[j]]

\* diff_dirs, lines 274-301: the two name tables after the tie-break.
TieBreak(lss, names, cur, nameorder) ==
  LET n0 == Deref(names[1], cur[1])
      n1 == Deref(names[2], cur[2])
      raw_order == file_name_cmp(n0, n1)
      greater_side == IF raw_order < 0 THEN 2 ELSE 1
      lesser_side == 3 - greater_side
      greater_name == Deref(names[greater_side], cur[greater_side])
      q == Scan(lss, names[lesser_side], cur[lesser_side] + 1, greater_name)
  IN IF nameorder = 0 /\ ignore_file_name_case /\ raw_order # 0 /\ q >= 0
     THEN [names EXCEPT ![lesser_side] = Rotate(@, cur[lesser_side], q, greater_name)]
     ELSE names

\* The names that line 285 hands to compare_names, in order, when the scan
\* of the lesser side starts at position q.
RECURSIVE ScanCalls(_, _, _, _)
ScanCalls(lss, t, q, greater_name) ==
  IF Deref(t, q) = Null THEN << >>
  ELSE <<Deref(t, q)>> \o
       (IF compare_names(lss, Deref(t, q), greater_name) # 0 THEN << >>
        ELSE IF 0 =< file_name_cmp(Deref(t, q), greater_name) THEN << >>
        ELSE ScanCalls(lss, t, q + 1, greater_name))

\* The compare_names calls of one iteration of the merge loop, as pairs
\* of arguments: the call of line 268, then the calls of line 285.
MergeCalls(lss, names, cur) ==
  LET n0 == Deref(names[1], cur[1])
      n1 == Deref(names[2], cur[2])
      raw_order == file_name_cmp(n0, n1)
      greater_side == IF raw_order < 0 THEN 2 ELSE 1
      lesser_side == 3 - greater_side
      greater_name == Deref(names[greater_side], cur[greater_side])
      scan == ScanCalls(lss, names[lesser_side], cur[lesser_side] + 1, greater_name)
  IN IF n0 = Null \/ n1 = Null THEN << >>
     ELSE IF compare_names(lss, n0, n1) = 0 /\ ignore_file_name_case /\ raw_order # 0
     THEN <<<<n0, n1>>>> \o [j \in 1..Len(scan) |-> <<scan[j], greater_name>>]
     ELSE <<<<n0, n1>>>>

\* What the entry called name is in directory d: "none" for no name.
Kind(d, name) ==
  IF name = Null THEN "none"
  ELSE IF name = DirName /\ sub[d] # 0 THEN "dir"
  ELSE "file"

\* The directory an entry denotes, 0 when the name is missing.
Child(d, name) == IF Kind(d, name) = "dir" THEN sub[d] ELSE 0

\* Does handle_file call diff_dirs on the pair?  It does when a side is a
\* directory and the other is a directory or missing.
Recurses(f, l, r) ==
  LET kl == Kind(f.id[1], l)
      kr == Kind(f.id[2], r)
  IN (kl = "dir" \/ kr = "dir") /\ kl # "file" /\ kr # "file"

\* The values handle_file can return for a pair it does not recurse into:
\* 1 for a file found on one side only or paired with a directory, 0 or 1
\* for two files.
HandlerValues(f, l, r) ==
  IF Kind(f.id[1], l) = "file" /\ Kind(f.id[2], r) = "file" THEN {0, 1} ELSE {1}

\* diff_dirs, lines 262-308: one iteration of the merge loop, up to the
\* return of handle_file when handle_file does not call diff_dirs, and up
\* to the entry of the nested diff_dirs when it does.
DiffDirsMerge ==
  /\ ub = "none"
  /\ stack # << >>
  /\ Top.pc = "merge"
  /\ LET f == Top
         lss == locale_specific_sorting
         n0 == Deref(f.names[1], f.cur[1])
         n1 == Deref(f.names[2], f.cur[2])
         nameorder == NameOrder(lss, n0, n1)
         calls == MergeCalls(lss, f.names, f.cur)
         names == IF n0 # Null /\ n1 # Null THEN TieBreak(lss, f.names, f.cur, nameorder) ELSE f.names
         l == IF 0 < nameorder THEN Null ELSE Deref(names[1], f.cur[1])
         r == IF nameorder < 0 THEN Null ELSE Deref(names[2], f.cur[2])
         cur == <<IF 0 < nameorder THEN f.cur[1] ELSE f.cur[1] + 1,
                  IF nameorder < 0 THEN f.cur[2] ELSE f.cur[2] + 1>>
         g == [f EXCEPT !.names = names, !.cur = cur,
                        !.pairs = Append(@, <<l, r>>),
                        !.collafterfail = @ \/ (f.diags > 0 /\ lss /\ n0 # Null /\ n1 # Null)]
     IN IF n0 = Null /\ n1 = Null
        THEN /\ stack' = [stack EXCEPT ![Depth].pc = "done"]
             /\ UNCHANGED lastcmp
        ELSE /\ lastcmp' = IF calls = << >> THEN lastcmp
                            ELSE Cmp(lss, calls[Len(calls)][1], calls[Len(calls)][2])
             /\ IF Recurses(f, l, r)
                THEN stack' = Append([stack EXCEPT ![Depth] = [g EXCEPT !.pc = "handler"]],
                                     NewFrame(Child(f.id[1], l), Child(f.id[2], r)))
                ELSE \E v1 \in HandlerValues(f, l, r) :
                       stack' = [stack EXCEPT ![Depth] =
                                   [g EXCEPT !.val = IF g.val < v1 THEN v1 ELSE g.val,
                                             !.hmax = Max(g.hmax, v1)]]
  /\ UNCHANGED <<env, locale_specific_sorting, jmp, fails, found, ub>>

\* The collation function fails in the comparison of line 268 or in one
\* of line 285: the j-th compare_names call of the iteration does not
\* return, the calls before it have.
DiffDirsMergeFailure ==
  /\ ub = "none"
  /\ stack # << >>
  /\ Top.pc = "merge"
  /\ locale_specific_sorting
  /\ fails < MaxFail
  /\ Deref(Top.names[1], Top.cur[1]) # Null
  /\ Deref(Top.names[2], Top.cur[2]) # Null
  /\ \E j \in 1..Len(MergeCalls(TRUE, Top.names, Top.cur)) :
       LET calls == MergeCalls(TRUE, Top.names, Top.cur)
       IN lastcmp' = IF j = 1 THEN lastcmp
                     ELSE Cmp(TRUE, calls[j - 1][1], calls[j - 1][2])
  /\ LongJmp([stack EXCEPT ![Depth].collafterfail = @ \/ Top.diags > 0])
  /\ UNCHANGED <<env, found>>

\* diff_dirs, lines 311-317: the tables are freed and val is returned, to
\* the caller of the top-level call or to the handle_file call of line 303
\* of the enclosing diff_dirs, which goes on with lines 306-307.
DiffDirsReturn ==
  /\ ub = "none"
  /\ stack # << >>
  /\ Top.pc = "done"
  /\ LET v1 == Top.val
     IN stack' = IF Depth = 1 THEN << >>
                 ELSE [SubSeq(stack, 1, Depth - 1) EXCEPT
                         ![Depth - 1].pc = "merge",
                         ![Depth - 1].val = IF @ < v1 THEN v1 ELSE @,
                         ![Depth - 1].hmax = Max(@, v1)]
  /\ jmp' = IF jmp.state = "live" /\ jmp.depth = Depth
            THEN [state |-> "dead", depth |-> 0] ELSE jmp
  /\ UNCHANGED <<env, locale_specific_sorting, fails, lastcmp, found, ub>>

(* --------------------------- Single-Name Finder ------------------------ *)

\* find_dir_file_pathname, lines 343-352: the loop over the names that
\* dir_read kept.  assigned tells whether match still is the pointer file.
RECURSIVE FindLoop(_, _, _, _)
FindLoop(names, file, match, assigned) ==
  IF names = << >> THEN match
  ELSE IF file_name_cmp(Head(names), file) = 0 THEN Head(names)
  ELSE IF ~assigned THEN FindLoop(Tail(names), file, Head(names), TRUE)
  ELSE FindLoop(Tail(names), file, match, assigned)

\* file_name_concat (dir->name, match, nullptr).
file_name_concat(d, match) == <<d, match>>

\* The directories and names find_dir_file_pathname is called with.
FindDirs == {RootLeft}

\* find_dir_file_pathname (dir, file) called outside any diff_dirs call.
\* It leaves the program state as it found it, so a second call in a row
\* is not explored.
FindDirFile ==
  /\ ub = "none"
  /\ stack = << >>
  /\ ~found.made
  /\ \E d \in FindDirs, file \in Universe :
       IF ignore_file_name_case
       THEN \E o \in ReadOutcomes :
            \E p \in Enumerations(o, ents[d], file) :
            \E k \in Stops(o, p, file) :
              LET ok == ReadOk("UNOPENED", o)
                  names == IF ok THEN dir_read(locale_specific_sorting, "UNOPENED", p, file, TRUE)
                           ELSE << >>
              IN /\ found' = [made |-> TRUE, dir |-> d, file |-> file, read |-> TRUE,
                              ok |-> ok, enum |-> Compared(o, p, k), names |-> names,
                              lss |-> locale_specific_sorting,
                              val |-> file_name_concat(d, FindLoop(names, file, file, FALSE))]
                 /\ lastcmp' = LastCall(locale_specific_sorting, NoCmp, Compared(o, p, k), file)
       ELSE /\ found' = [made |-> TRUE, dir |-> d, file |-> file, read |-> FALSE,
                         ok |-> FALSE, enum |-> << >>, names |-> << >>,
                         lss |-> locale_specific_sorting,
                         val |-> file_name_concat(d, file)]
            /\ lastcmp' = NoCmp
  /\ UNCHANGED <<env, locale_specific_sorting, jmp, stack, fails, ub>>

\* The collation function fails while the dir_read of
\* find_dir_file_pathname compares the j-th entry with file; the
\* comparisons before it have returned.
FindDirFileFailure ==
  /\ ub = "none"
  /\ stack = << >>
  /\ ~found.made
  /\ ignore_file_name_case
  /\ locale_specific_sorting
  /\ fails < MaxFail
  /\ \E d \in FindDirs, file \in Universe :
       \E p \in Orders(ents[d]), j \in 1..Cardinality(ents[d]) :
           lastcmp' = LastCall(TRUE, NoCmp, SubSeq(p, 1, j - 1), file)
  /\ LongJmp(stack)
  /\ UNCHANGED <<env, found>>

(* ---------------------------- specification ---------------------------- *)

Subsets(S, n) == {T \in SUBSET S : Cardinality(T) =< n}

\* File systems for the pairing of two flat directories.
PairingEnv ==
  /\ \E L, R \in Subsets(Universe, MaxNames) :
       ents = [d \in Dirs |-> IF d = RootLeft THEN L ELSE IF d = RootRight THEN R ELSE {}]
  /\ sub = [d \in Dirs |-> 0]
  /\ locale \in {"C", "nocase"}
  /\ ignore_file_name_case \in BOOLEAN
  /\ locale = "nocase" => ~ignore_file_name_case
  /\ \/ starting_file = Null /\ excluded = {}
     \/ starting_file = NameAb /\ excluded = {NameaB} /\ ignore_file_name_case

\* The directories that can be met when the comparison starts from the
\* directories of S.
RECURSIVE ReachFrom(_)
ReachFrom(S) ==
  LET T == S \cup ({sub[d] : d \in S} \ {0})
  IN IF T = S THEN S ELSE ReachFrom(T)

\* File systems with subdirectories and symbolic links to directories.
\* A directory that the comparison cannot reach is left empty.
RecursionEnv ==
  /\ sub \in [Dirs -> 0..NDirs]
  /\ \E plain \in SUBSET Dirs, extra \in BOOLEAN :
       ents = [d \in Dirs |->
                 (IF sub[d] # 0 \/ d \in plain THEN {DirName} ELSE {})
                 \cup (IF extra /\ d \in ReachFrom({RootLeft, RootRight}) THEN {Nameab} ELSE {})]
  /\ \A d \in Dirs \ ReachFrom({RootLeft, RootRight}) : sub[d] = 0 /\ ents[d] = {}
  /\ locale = "C"
  /\ ignore_file_name_case \in BOOLEAN
  /\ starting_file = IF ignore_file_name_case THEN Nameab ELSE Null
  /\ excluded = {}

Start ==
  /\ locale_specific_sorting = FALSE
  /\ jmp = [state |-> "unset", depth |-> 0]
  /\ stack = << >>
  /\ fails = 0
  /\ lastcmp = NoCmp
  /\ found = NoFind
  /\ ub = "none"

Next ==
  \/ DiffDirsTop
  \/ DiffDirsEnter
  \/ DiffDirsRead
  \/ DiffDirsReadFailure
  \/ DiffDirsSetjmp
  \/ DiffDirsSort
  \/ DiffDirsSortFailure
  \/ DiffDirsMerge
  \/ DiffDirsMergeFailure
  \/ DiffDirsReturn
  \/ FindDirFile
  \/ FindDirFileFailure

\* Two flat directories are compared.
Init == PairingEnv /\ Start

Spec == Init /\ [][Next]_vars

\* Two directory trees are compared.
InitTree == RecursionEnv /\ Start

SpecTree == InitTree /\ [][Next]_vars

(* ------------------------------ properties ----------------------------- *)

Frames == {stack[k] : k \in 1..Len(stack)}

\* The activations whose merge is under way or over, with both reads
\* successful and no collation failure since the call began (a failure
\* inside a nested diff_dirs call counts).
CleanMerges ==
  {f \in Frames : /\ f.pc \in {"merge", "handler", "done"}
                  /\ f.readok = <<TRUE, TRUE>>
                  /\ ~f.looped
                  /\ ~f.extentfail}

\* The names handed to handle_file for side i, in order of delivery.
Delivered(f, i) == SelectSeq([j \in 1..Len(f.pairs) |-> f.pairs[j][i]], LAMBDA n : n # Null)

Injective(s) == \A i, j \in 1..Len(s) : i # j => s[i] # s[j]

\* No name of one side equals a name of the other under compare_names.
DisjointNames(f) ==
  \A l \in f.read[1], r \in f.read[2] : compare_names(TRUE, l, r) # 0

\* C1: in a diff_dirs call that read both directories and saw no collation
\* failure, no pair is (null, null), a two-sided pair holds names equal
\* under compare_names, no name is delivered twice, and when the merge is
\* over every name of the left table has been delivered once on the left
\* and every name of the right table once on the right; directories with
\* disjoint name sets give |left|+|right| pairs, each with one side null.
C1_EachNameDeliveredOnce ==
  \A f \in CleanMerges :
    /\ \A j \in 1..Len(f.pairs) :
         /\ f.pairs[j] # <<Null, Null>>
         /\ (f.pairs[j][1] # Null /\ f.pairs[j][2] # Null
               => compare_names(TRUE, f.pairs[j][1], f.pairs[j][2]) = 0)
    /\ \A i \in Sides :
         /\ Injective(Delivered(f, i))
         /\ Range(Delivered(f, i)) \subseteq f.read[i]
         /\ (f.pc = "done" => Range(Delivered(f, i)) = f.read[i])
    /\ (f.pc = "done" /\ DisjointNames(f)
          => /\ Len(f.pairs) = Cardinality(f.read[1]) + Cardinality(f.read[2])
             /\ \A j \in 1..Len(f.pairs) : f.pairs[j][1] = Null \/ f.pairs[j][2] = Null)

\* A finished merge that delivered a two-sided pair and a one-sided pair on
\* each side.
C1_Witness ==
  \E f \in CleanMerges :
    /\ f.pc = "done"
    /\ \E j \in 1..Len(f.pairs) : f.pairs[j][1] # Null /\ f.pairs[j][2] # Null
    /\ \E j \in 1..Len(f.pairs) : f.pairs[j][1] = Null
    /\ \E j \in 1..Len(f.pairs) : f.pairs[j][2] = Null

\* C2: with case folding and no collation failure, a finished merge has
\* delivered (n, n) for every name n that both tables hold byte for byte,
\* a pair of two byte-different names only when neither name is in the
\* other side's table, for equal tables one two-sided pair per name, and
\* for left {"A","ab"} and right {"a","Ab"} the pairs ("A","a") then
\* ("ab","Ab").
C2_ExactCasePreferred ==
  \A f \in CleanMerges :
    (ignore_file_name_case /\ f.pc = "done") =>
      /\ \A n \in f.read[1] \cap f.read[2] : <<n, n>> \in Range(f.pairs)
      /\ \A j \in 1..Len(f.pairs) :
           LET l == f.pairs[j][1]
               r == f.pairs[j][2]
           IN (l # Null /\ r # Null /\ l # r)
                => l \notin f.read[2] /\ r \notin f.read[1]
      /\ (f.read[1] = f.read[2]
            => /\ Len(f.pairs) = Cardinality(f.read[1])
               /\ \A j \in 1..Len(f.pairs) : f.pairs[j][1] # Null /\ f.pairs[j][2] # Null)
      /\ (f.read[1] = {NameA, Nameab} /\ f.read[2] = {Namea, NameAb}
            => f.pairs = <<<<NameA, Namea>>, <<Nameab, NameAb>>>>)

\* A finished case-folding merge that paired n with n although the other
\* case variant of n came first on one side.
C2_Witness ==
  \E f \in CleanMerges :
    /\ ignore_file_name_case
    /\ f.pc = "done"
    /\ \E i \in Sides, j \in 1..Len(f.pairs) :
         /\ f.pairs[j][1] = f.pairs[j][2]
         /\ \E m \in f.read[i] :
              /\ strcasecoll(m, f.pairs[j][1]) = 0
              /\ file_name_cmp(m, f.pairs[j][1]) < 0
              /\ m \notin f.read[3 - i]

\* The name a pair is ordered by.
Keys(pair) == {pair[1], pair[2]} \ {Null}

\* C9: in a diff_dirs call without collation failure the pairs come in
\* non-decreasing order of their names under compare_names, and on each
\* side the names delivered so far are exactly the entries of the table
\* before the cursor, in table order.
C9_DeliveryOrder ==
  \A f \in CleanMerges :
    /\ \A j \in 1..(Len(f.pairs) - 1) :
         \A a \in Keys(f.pairs[j]), b \in Keys(f.pairs[j + 1]) :
           compare_names(TRUE, a, b) =< 0
    /\ \A i \in Sides :
         /\ f.cur[i] =< Len(f.names[i])
         /\ Delivered(f, i) = SubSeq(f.names[i], 1, f.cur[i])

\* A finished merge of at least three pairs in which the tie-break has
\* moved a name to the front of its run, so that a table is no longer in
\* the order of the sort.
C9_Witness ==
  \E f \in CleanMerges :
    /\ f.pc = "done"
    /\ Len(f.pairs) >= 3
    /\ \E i \in Sides : f.names[i] # qsort(TRUE, f.names[i])

\* C3: a diff_dirs call in which a dir_read failed never calls handle_file
\* and returns EXIT_TROUBLE; a call in which both succeeded returns the
\* largest of EXIT_SUCCESS and the values handle_file returned.  A call
\* whose first dir_read failed and whose second dir_read is cut short by a
\* collation failure is a call in which a dir_read failed.
C3_ReadFailureShortCircuits ==
  \A f \in Frames :
    /\ (\E i \in Sides : f.outcome[i] \in {"openat", "fdopendir", "readdir"})
         => /\ f.pairs = << >>
            /\ f.pc = "done"
            /\ f.val = EXIT_TROUBLE
    /\ (f.pc = "done" /\ f.outcome = <<"ok", "ok">>) => f.val = f.hmax

\* C5 as claimed: under collated ordering a nonzero collation order is the
\* result, collation equality without case folding gives 0, collation
\* equality with case folding gives the byte-wise order; without collated
\* ordering the result is the byte-wise order.
C5_AsClaimed ==
  lastcmp.made =>
    LET diff == compare_collated(lastcmp.n1, lastcmp.n2)
        raw == file_name_cmp(lastcmp.n1, lastcmp.n2)
    IN IF lastcmp.lss
       THEN /\ (diff # 0 => lastcmp.r = diff)
            /\ (diff = 0 /\ ~ignore_file_name_case => lastcmp.r = 0)
            /\ (diff = 0 /\ ignore_file_name_case => lastcmp.r = raw)
       ELSE lastcmp.r = raw

\* C5 amended: under collated ordering a nonzero collation order is the
\* result, collation equality with case folding gives 0, collation
\* equality without case folding gives the byte-wise order; without
\* collated ordering the result is the byte-wise order.
C5_CompareNames ==
  lastcmp.made =>
    LET diff == compare_collated(lastcmp.n1, lastcmp.n2)
        raw == file_name_cmp(lastcmp.n1, lastcmp.n2)
    IN IF lastcmp.lss
       THEN /\ (diff # 0 => lastcmp.r = diff)
            /\ (diff = 0 /\ ignore_file_name_case => lastcmp.r = 0)
            /\ (diff = 0 /\ ~ignore_file_name_case => lastcmp.r = raw)
       ELSE lastcmp.r = raw

\* compare_names was called under collated ordering, without case folding,
\* on two byte-different names that the collation function calls equal.
C5_Witness ==
  /\ lastcmp.made
  /\ lastcmp.lss
  /\ ~ignore_file_name_case
  /\ compare_collated(lastcmp.n1, lastcmp.n2) = 0
  /\ lastcmp.n1 # lastcmp.n2

\* The name the claim C10 expects find_dir_file_pathname to choose among
\* the entries enumerated in order p.
RECURSIVE FirstFolded(_, _)
FirstFolded(p, file) ==
  IF p = << >> THEN file
  ELSE IF Head(p) \notin excluded /\ strcasecoll(Head(p), file) = 0 THEN Head(p)
  ELSE FirstFolded(Tail(p), file)

ExpectedMatch(p, file) ==
  IF file \in Range(p) \ excluded THEN file ELSE FirstFolded(p, file)

\* C10: with case folding and a readable directory find_dir_file_pathname
\* returns the directory joined with the entry identical to the target,
\* else with the first enumerated entry equal to it but for case, else
\* with the target; without case folding it returns the directory joined
\* with the target and reads nothing.
C10_FindsFoldedMatch ==
  found.made =>
    IF ignore_file_name_case
    THEN found.ok => found.val = file_name_concat(found.dir, ExpectedMatch(found.enum, found.file))
    ELSE ~found.read /\ found.val = file_name_concat(found.dir, found.file)

\* Side i of the comparison of frame k exists and some proper ancestor has
\* the same directory on that side.
LoopsSide(k, i) ==
  /\ stack[k].id[i] # 0
  /\ \E a \in 1..(k - 1) : stack[a].id[i] = stack[k].id[i]

\* The call of frame k has not touched its directories.
NothingRead(f) ==
  /\ f.outcome = <<"none", "none">>
  /\ \A i \in Sides : f.desc[i] # "OPEN" /\ ~f.dirstream[i]
  /\ f.pairs = << >>

\* C6 as claimed: diff_dirs takes the recursive-loop exit exactly when both
\* sides loop.
C6_AsClaimed ==
  \A k \in 1..Len(stack) :
    stack[k].pc # "enter" => (stack[k].looped <=> (LoopsSide(k, 1) /\ LoopsSide(k, 2)))

\* C6 amended: diff_dirs prints the recursive-loop diagnostic and returns
\* EXIT_TROUBLE without reading either directory exactly when each side is
\* known not to exist or loops.
C6_LoopExit ==
  \A k \in 1..Len(stack) :
    stack[k].pc # "enter" =>
      /\ stack[k].looped <=> (\A i \in Sides : stack[k].id[i] = 0 \/ LoopsSide(k, i))
      /\ stack[k].looped =>
           stack[k].pc = "done" /\ stack[k].val = EXIT_TROUBLE /\ NothingRead(stack[k])

\* A call took the recursive-loop exit with one side nonexistent and the
\* other a revisit of an ancestor.
C6_Witness ==
  \E k \in 1..Len(stack), i \in Sides :
    stack[k].looped /\ stack[k].id[i] = 0 /\ LoopsSide(k, 3 - i)

\* Side i of frame k loops, the other side exists and does not loop.
OneSidedLoop(k, i) ==
  LoopsSide(k, i) /\ stack[k].id[3 - i] # 0 /\ ~LoopsSide(k, 3 - i)

\* C7 as claimed: in a comparison with a one-sided loop diff_dirs does not
\* abort and the looping side is not opened, not enumerated and gives no
\* name to the merge.
C7_AsClaimed ==
  \A k \in 1..Len(stack), i \in Sides :
    OneSidedLoop(k, i) =>
      /\ ~stack[k].looped
      /\ stack[k].desc[i] = "UNOPENED"
      /\ ~stack[k].dirstream[i]
      /\ \A j \in 1..Len(stack[k].pairs) : stack[k].pairs[j][i] = Null

\* C7 amended: in a comparison with a one-sided loop diff_dirs does not
\* abort, and the looping side is opened and enumerated like the other
\* side: its dir_read returns the entries of the directory and, when the
\* merge ends without read or collation failure, each of them has been
\* delivered on that side.
C7_OneSidedLoopIsRead ==
  \A k \in 1..Len(stack), i \in Sides :
    OneSidedLoop(k, i) =>
      LET f == stack[k]
      IN /\ ~f.looped
         /\ (f.pc \notin {"enter", "read"} => f.outcome[i] # "none")
         /\ (f.outcome[i] = "ok" =>
               f.desc[i] = "OPEN" /\ f.dirstream[i] /\ f.read[i] = ents[f.id[i]] \ excluded)
         /\ (f \in CleanMerges /\ f.pc = "done" =>
               Range(Delivered(f, i)) = ents[f.id[i]] \ excluded)

\* A finished merge with a one-sided loop that delivered a name of the
\* looping directory.
C7_Witness ==
  \E k \in 1..Len(stack), i \in Sides :
    /\ OneSidedLoop(k, i)
    /\ stack[k] \in CleanMerges
    /\ stack[k].pc = "done"
    /\ Delivered(stack[k], i) # << >>

\* C8: the chain of nested diff_dirs calls is never longer than the number
\* of left directories plus the number of right directories plus one, and
\* a call in which each side is nonexistent or a revisit of an ancestor
\* delivers no pair.
C8_DepthBounded ==
  /\ Len(stack) =< Cardinality(ReachFrom({RootLeft})) + Cardinality(ReachFrom({RootRight})) + 1
  /\ \A k \in 1..Len(stack) :
       (\A i \in Sides : stack[k].id[i] = 0 \/ LoopsSide(k, i)) => stack[k].pairs = << >>

\* A chain of at least three calls ended by a call whose two directories
\* both exist and both revisit an ancestor.
C8_Witness ==
  /\ Len(stack) >= 3
  /\ Top.looped
  /\ LoopsSide(Len(stack), 1)
  /\ LoopsSide(Len(stack), 2)

\* No comparison of a call uses collation after the call's collation
\* failure.
NoCollationAfterFailure == \A f \in Frames : ~f.collafterfail

\* C4: after a collation failure in a diff_dirs call every comparison of
\* that call uses byte order, the call prints at most one collation
\* diagnostic, and it runs to completion.
C4_RawAfterFailure ==
  /\ NoCollationAfterFailure
  /\ \A f \in Frames : f.diags =< 1 /\ (f.diags > 0 => ub = "none")

\* C11: while a diff_dirs call is running and no collation failure has
\* happened since the top-level call began, the latest compare_names call,
\* those of dir_read against starting_file included, was made with
\* collated ordering active.
C11_StartsCollated ==
  (stack # << >> /\ lastcmp.made /\ \A f \in Frames : ~f.extentfail) => lastcmp.lss

\* C12: a diff_dirs call that is back at the sort after a collation
\* failure, with pairs already delivered, goes on: the failure does not
\* end the run.
C12_RecoversMidMerge ==
  \A f \in Frames : (f.pc = "sort" /\ f.pairs # << >>) => ub = "none"

\* The entries of E that dir_read keeps for the restart cursor s when
\* locale_specific_sorting is lss.
Survivors(lss, E, s, only) ==
  {e \in E \ ({Dot, DotDot} \cup excluded) :
     s = Null \/ IF only THEN compare_names(lss, e, s) = 0
                 ELSE compare_names(lss, e, s) >= 0}

\* C13: a dir_read that succeeded on an existing directory returns a table
\* that holds each enumerated entry that is not "." or "..", is not
\* excluded and is not ordered before the restart cursor under
\* compare_names (is equal to it in only-mode) exactly once, with nnames
\* the number of these entries and the null marker behind them.
C13_TableHoldsSurvivors ==
  /\ \A f \in Frames, i \in Sides :
       (f.pc = "setjmp" /\ f.id[i] # 0) =>
         LET start == IF f = stack[1] THEN starting_file ELSE Null
             keep == Survivors(locale_specific_sorting, ents[f.id[i]], start, FALSE)
         IN /\ Injective(f.names[i])
            /\ Range(f.names[i]) = keep
            /\ Len(f.names[i]) = Cardinality(keep)
            /\ Deref(f.names[i], Len(f.names[i])) = Null
  /\ (found.made /\ found.read /\ found.ok) =>
       LET keep == Survivors(found.lss, Range(found.enum), found.file, TRUE)
       IN /\ Injective(found.names)
          /\ Range(found.names) = keep
          /\ Len(found.names) = Cardinality(keep)
          /\ Deref(found.names, Len(found.names)) = Null

\* A read with a restart cursor that kept one entry of a directory and
\* dropped another.
C13_Witness ==
  \E f \in Frames, i \in Sides :
    /\ f.pc = "setjmp"
    /\ starting_file # Null
    /\ f.names[i] # << >>
    /\ Range(f.names[i]) # ents[f.id[i]]

\* C14: in a diff_dirs call with one side NONEXISTENT and the other side an
\* existing directory that does not loop, the nonexistent side is never
\* opened or enumerated, its desc and dirstream stay as they were, its
\* table is empty, every pair has a null element on that side, and when
\* the call ends after reading the other side successfully each entry of
\* the other side has been delivered exactly once.
C14_NonexistentSideIsEmpty ==
  \A k \in 1..Len(stack), i \in Sides :
    LET f == stack[k]
    IN (f.id[i] = 0 /\ f.id[3 - i] # 0 /\ ~LoopsSide(k, 3 - i)) =>
         /\ f.desc[i] = "NONEXISTENT"
         /\ ~f.dirstream[i]
         /\ f.read[i] = {}
         /\ f.names[i] = << >>
         /\ ~f.looped
         /\ \A j \in 1..Len(f.pairs) : f.pairs[j][i] = Null /\ f.pairs[j][3 - i] # Null
         /\ (f.pc = "done" /\ f.readok[3 - i]) =>
              /\ Injective(Delivered(f, 3 - i))
              /\ Range(Delivered(f, 3 - i)) = ents[f.id[3 - i]] \ excluded
              /\ Len(f.pairs) = Cardinality(ents[f.id[3 - i]] \ excluded)

\* A call with a nonexistent side that has ended after delivering two
\* names of the other side.
C14_Witness ==
  \E k \in 1..Len(stack), i \in Sides :
    /\ stack[k].id[i] = 0
    /\ stack[k].id[3 - i] # 0
    /\ ~LoopsSide(k, 3 - i)
    /\ stack[k].pc = "done"
    /\ Len(stack[k].pairs) >= 2

\* The pairs the merge loop of diff_dirs delivers from the tables names
\* and the cursors cur when no collation failure occurs.
RECURSIVE MergeAll(_, _, _)
MergeAll(lss, names, cur) ==
  LET n0 == Deref(names[1], cur[1])
      n1 == Deref(names[2], cur[2])
      nameorder == NameOrder(lss, n0, n1)
      t == IF n0 # Null /\ n1 # Null THEN TieBreak(lss, names, cur, nameorder) ELSE names
      l == IF 0 < nameorder THEN Null ELSE Deref(t[1], cur[1])
      r == IF nameorder < 0 THEN Null ELSE Deref(t[2], cur[2])
      c == <<IF 0 < nameorder THEN cur[1] ELSE cur[1] + 1,
             IF nameorder < 0 THEN cur[2] ELSE cur[2] + 1>>
  IN IF n0 = Null /\ n1 = Null THEN << >>
     ELSE <<<<l, r>>>> \o MergeAll(lss, t, c)

\* One enumeration of the set S, the same whenever S is the same.
Canonical(S) == CHOOSE p \in Perms(S) : TRUE

\* compare_names_for_qsort is a strict total order of the names: 0 only
\* for byte-identical names, antisymmetric and transitive, with and
\* without collated ordering.
StrictTotalOrder ==
  \A lss \in BOOLEAN, a, b \in Universe :
    /\ (compare_names_for_qsort(lss, a, b) = 0) <=> (a = b)
    /\ compare_names_for_qsort(lss, a, b) = -compare_names_for_qsort(lss, b, a)
    /\ \A c \in Universe :
         (compare_names_for_qsort(lss, a, b) < 0 /\ compare_names_for_qsort(lss, b, c) < 0)
           => compare_names_for_qsort(lss, a, c) < 0

\* C15: in every environment (it is looked at when a top-level call
\* begins) compare_names_for_qsort is a strict total order of the names;
\* and the pairs a diff_dirs call without collation failure has delivered
\* are the first pairs, and at its end all the pairs, of the sequence that
\* the two sets of names read determine, whatever the order of
\* enumeration.
C15_EnumerationOrderInvisible ==
  /\ (Len(stack) = 1 /\ Top.pc = "enter") => StrictTotalOrder
  /\ \A f \in CleanMerges :
       LET all == MergeAll(TRUE, <<qsort(TRUE, Canonical(f.read[1])),
                                   qsort(TRUE, Canonical(f.read[2]))>>, <<0, 0>>)
       IN /\ Len(f.pairs) =< Len(all)
          /\ f.pairs = SubSeq(all, 1, Len(f.pairs))
          /\ (f.pc = "done" => f.pairs = all)

\* A finished merge in which one side held two names that the collation
\* function calls equal, so that only the file_name_cmp tie-break of the
\* sort fixes their order.
C15_Witness ==
  \E f \in CleanMerges :
    /\ f.pc = "done"
    /\ \E i \in Sides : \E a, b \in f.read[i] : a # b /\ compare_collated(a, b) = 0

\* C16: whenever the merge of a diff_dirs call is about to compare,
\* locale_specific_sorting is what that call made it: true when the call
\* has had no collation failure of its own, false when it has had one,
\* whatever the nested calls made from its handler did.
C16_NestedCallKeepsPolicy ==
  (stack # << >> /\ ub = "none" /\ Top.pc = "merge")
    => (locale_specific_sorting <=> Top.diags = 0)

\* C17: when a diff_dirs call is at the sort, the nnames entries that
\* start at the cursor of each side end within the nnames names of the
\* table: the range stops before the null marker.
C17_SortRangeInsideTable ==
  \A f \in Frames :
    f.pc = "sort" => \A i \in Sides : f.cur[i] + Len(f.names[i]) =< Len(f.names[i])

\* C18: no collation failure jumps to a target that was never set or whose
\* diff_dirs call has returned; and whenever the sort or the merge of a
\* diff_dirs call runs with locale_specific_sorting true, the jump target
\* is the setjmp of that call, the innermost one.
C18_JumpTargetLive ==
  /\ ub \notin StaleOutcomes
  /\ (stack # << >> /\ locale_specific_sorting /\ Top.pc \in {"sort", "merge"})
       => jmp = [state |-> "live", depth |-> Depth]

====
